---- MODULE Spec2Model ----
(***************************************************************************)
(* Model of the prompt strength analyzer of ai-diagram-generator           *)
(* (src/app/components/PromptPanel.tsx).                                   *)
(*                                                                         *)
(* A text is a sequence of atoms.  An atom stands for a concrete run of    *)
(* characters (a word, a digit, a punctuation mark, a white-space          *)
(* character); the regular expressions of the source are evaluated on      *)
(* the atoms exactly as the JavaScript engine evaluates them on the        *)
(* characters the atoms stand for (word boundaries, maximal digit runs,    *)
(* global and non-global String.prototype.match).                          *)
(*                                                                         *)
(* CJK literals of the source are written in ASCII here:                   *)
(*   "DX" is the keyword U+52A8 U+7EBF (circulation), "HK" is the vague    *)
(*   word U+597D U+770B (good-looking); zh messages carry the prefix       *)
(*   "zh:" followed by the English rendering of the zh literal.            *)
(***************************************************************************)
EXTENDS Integers, Sequences, FiniteSets, TLC

VARIABLES
    argRaw,       \* the value passed as raw to the current analyzer call
    argLanguage,  \* the value passed as language to the current call
    result,       \* what the current call returned or threw, or NotCalled
    first,        \* arguments and result of the first call of the run
    calls,        \* number of analyzer calls made so far
    params,       \* the config passed to the current buildDiagramPrompt call
    built,        \* what that call returned, or NotBuilt
    lookups,      \* the getIntentPresets calls made so far, oldest first
    request,      \* the request the route is handling: environment and body
    routePc,      \* where the POST handler stands
    intents,      \* the intents list of the request
    results,      \* the results array of the request
    providerLog,  \* the provider calls the handler has issued, oldest first
    response,     \* the response of the handler, or NoResponse
    prompt,       \* the page's prompt state
    strength,     \* the page's strength state
    callbacks,    \* strength callbacks PromptPanel has yet to deliver
    loading,      \* the page's loading state
    error,        \* the page's error state, "" for null
    images,       \* the page's images state
    fetches       \* the generation requests the page has sent, oldest first

analyzerVars == <<argRaw, argLanguage, result, first, calls>>
compilerVars == <<params, built>>
lookupVars == <<lookups>>
routeVars == <<request, routePc, intents, results, providerLog, response>>
pageVars == <<prompt, strength, callbacks, loading, error, images, fetches>>
vars == <<analyzerVars, compilerVars, lookupVars, routeVars, pageVars>>

----------------------------------------------------------------------------
(* Bounds of the checked input space *)

\* longest body (in atoms) of an input text
MaxLen == 3
\* longest body (in atoms) of a text used in a sequence of calls
MaxProbeLen == 1
\* most analyzer calls in one sequence of calls
MaxCalls == 3
\* length of the texts of fixed length
FitLen == 100
MaxTextLen == 2
MaxLookups == 3
MaxCallbacks == 2
MaxFetches == 2
MaxPromptEls == 20

----------------------------------------------------------------------------
(* Atoms and the characters they stand for *)

\* white space: a blank and a line feed
WsAtoms == {"SP", "NL"}
\* atoms made of word characters only (\w): words and the digit
WordAtoms == {"diagram", "circulation", "grid", "label", "staff", "nice",
              "make", "it", "3", "z"}
\* the alphabet input bodies are drawn from
Alphabet == {"SP", "NL", ",", "-", "3", "/", "diagram", "grid", "label",
             "DX", "staff", "nice", "HK"}

\* number of UTF-16 code units of an atom; a filler <<"z", n>> is a word of n
\* letters that matches no pattern of the analyzer
AtomLen(a) ==
    CASE a = "diagram" -> 7
      [] a = "circulation" -> 11
      [] a = "grid" -> 4
      [] a = "label" -> 5
      [] a = "staff" -> 5
      [] a = "nice" -> 4
      [] a = "make" -> 4
      [] a = "it" -> 2
      [] a = "DX" -> 2
      [] a = "HK" -> 2
      [] OTHER -> 1

\* a text element is an atom together with its length; fillers have any length
El(a) == <<a, AtomLen(a)>>
Filler(n) == <<"z", n>>
Kind(e) == e[1]

IsWs(e) == Kind(e) \in WsAtoms
IsWordChar(e) == Kind(e) \in WordAtoms

RECURSIVE StrLen(_)
\* String.prototype.length
StrLen(s) == IF s = <<>> THEN 0 ELSE Head(s)[2] + StrLen(Tail(s))

RECURSIVE TrimStart(_)
TrimStart(s) ==
    IF s = <<>> THEN <<>>
    ELSE IF IsWs(Head(s)) THEN TrimStart(Tail(s)) ELSE s

RECURSIVE TrimEnd(_)
\* String.prototype.trimEnd
TrimEnd(s) ==
    IF s = <<>> THEN <<>>
    ELSE IF IsWs(s[Len(s)]) THEN TrimEnd(SubSeq(s, 1, Len(s) - 1)) ELSE s

\* a trim that strips nothing
Trim_none(s) == s

\* String.prototype.trim
Trim(s) == TrimEnd(TrimStart(s))

----------------------------------------------------------------------------
(* Regular expressions on atoms *)

\* A pattern: the atoms its alternatives stand for, its shape
\*   "alt"  an alternation of literals or a character class,
\*   "run"  a character class under + (a match is a maximal run),
\*   "word" an alternation between two \b,
\* the g flag and the number of capture groups.
Pat(cls, shape, global, groups) ==
    [cls |-> cls, shape |-> shape, global |-> global, groups |-> groups]

\* does a match of p start at element i of s
MatchesAt(s, p, i) ==
    /\ Kind(s[i]) \in p.cls
    /\ CASE p.shape = "alt" -> TRUE
         [] p.shape = "run" -> i = 1 \/ Kind(s[i - 1]) \notin p.cls
         [] p.shape = "word" ->
              /\ i = 1 \/ ~IsWordChar(s[i - 1])
              /\ i = Len(s) \/ ~IsWordChar(s[i + 1])

RECURSIVE Scan(_, _, _)
\* the positions of all successive matches of p in s from element i on
Scan(s, p, i) ==
    IF i > Len(s) THEN <<>>
    ELSE IF MatchesAt(s, p, i) THEN <<i>> \o Scan(s, p, i + 1)
    ELSE Scan(s, p, i + 1)

\* null, the value of String.prototype.match without a match
Null == <<>>

\* String.prototype.match: with the g flag the array of all matches, without
\* it the array of the first match followed by its capture groups, null when
\* nothing matches
StrMatch(s, p) ==
    LET all == Scan(s, p, 1)
    IN  IF all = <<>> THEN Null
        ELSE IF p.global THEN all
        ELSE <<all[1]>> \o [g \in 1..p.groups |-> all[1]]

\* RegExp.prototype.test of a pattern without the g flag
RegexTest(s, p) == Scan(s, p, 1) # <<>>

RECURSIVE countMatchesFrom(_, _, _)
countMatchesFrom(text, patterns, k) ==
    IF k > Len(patterns) THEN 0
    ELSE LET m == StrMatch(text, patterns[k])
         IN  (IF m # Null THEN Len(m) ELSE 0)
             + countMatchesFrom(text, patterns, k + 1)

countMatches(text, patterns) == countMatchesFrom(text, patterns, 1)

clamp(n, a, b) ==
    LET lo == IF b < n THEN b ELSE n
    IN  IF a > lo THEN a ELSE lo

----------------------------------------------------------------------------
(* The pattern library of analyzePromptStrength *)

\* /[,:;...]/
PunctuationPattern == Pat({","}, "alt", FALSE, 0)
\* /\n/
LineBreakPattern == Pat({"NL"}, "alt", FALSE, 0)

\* /(^|\n)\s*[-*]\s+/ : a bullet mark followed by white space and preceded
\* by white space that reaches the start of the text or holds a line feed
BulletAt(s, i) ==
    /\ Kind(s[i]) = "-"
    /\ i < Len(s)
    /\ IsWs(s[i + 1])
    /\ LET nonWs == {j \in 1..(i - 1) : ~IsWs(s[j])}
           from == IF nonWs = {} THEN 0
                   ELSE CHOOSE j \in nonWs : \A k \in nonWs : k <= j
       IN  \/ from = 0
           \/ \E k \in (from + 1)..(i - 1) : Kind(s[k]) = "NL"

hasBulletsTest(s) == \E i \in 1..Len(s) : BulletAt(s, i)

\* the five keyword groups: diagram types, visual language, relationships,
\* output directives, chinese equivalents; none has the g flag
kw ==
    << Pat({"diagram", "circulation"}, "alt", FALSE, 0),
       Pat({"grid"}, "alt", FALSE, 0),
       Pat({"label"}, "alt", FALSE, 0),
       Pat({"label"}, "alt", FALSE, 0),
       Pat({"DX"}, "alt", FALSE, 0) >>

\* /\d+/g
NumberPattern == Pat({"3"}, "run", TRUE, 0)
\* /\b(public|private|service|staff|guest)\b/gi
EnumPattern == Pat({"staff"}, "word", TRUE, 1)
\* /[\/|]/g
SeparatorPattern == Pat({"/"}, "alt", TRUE, 0)

\* the two groups of vague words, english and chinese; none has the g flag
vague ==
    << Pat({"nice"}, "alt", FALSE, 0),
       Pat({"HK"}, "alt", FALSE, 0) >>

----------------------------------------------------------------------------
(* analyzePromptStrength *)

\* a length score that keeps 60 up to 380 characters
lenScore_noDip(len) ==
    IF len < 40 THEN 10
    ELSE IF len < 80 THEN 25
    ELSE IF len < 120 THEN 40
    ELSE IF len < 380 THEN 60
    ELSE 45

\* base score from length
lenScore(len) ==
    IF len < 40 THEN 10
    ELSE IF len < 80 THEN 25
    ELSE IF len < 120 THEN 40
    ELSE IF len < 260 THEN 60
    ELSE IF len < 380 THEN 55
    ELSE 45

hasPunctuation(text) == RegexTest(text, PunctuationPattern)
hasLineBreaks(text) == RegexTest(text, LineBreakPattern)
hasBullets(text) == hasBulletsTest(text)

structureScore(text) ==
    (IF hasPunctuation(text) THEN 10 ELSE 0)
    + (IF hasLineBreaks(text) THEN 8 ELSE 0)
    + (IF hasBullets(text) THEN 10 ELSE 0)

keywordHits(text) == countMatches(text, kw)

\* a keyword weight of 5 instead of 6
keywordScore_weight5(text) == clamp(keywordHits(text) * 5, 0, 30)

keywordScore(text) == clamp(keywordHits(text) * 6, 0, 30)

\* (text.match(re) || []).length
MatchCount(text, p) ==
    LET m == StrMatch(text, p)
    IN  IF m # Null THEN Len(m) ELSE 0

numberHits(text) == MatchCount(text, NumberPattern)
enumHits(text) == MatchCount(text, EnumPattern)
separatorHits(text) == MatchCount(text, SeparatorPattern)

constraintsScore(text) ==
    clamp(numberHits(text) * 4 + enumHits(text) * 2 + separatorHits(text) * 1,
          0, 20)

vagueHits(text) == countMatches(text, vague)

\* no penalty for vague words
vaguePenalty_off(text) == 0

vaguePenalty(text) == clamp(vagueHits(text) * 8, 0, 20)

\* the thresholds compared with > instead of >=
levelOf_strict(score) ==
    IF score > 70 THEN "precise"
    ELSE IF score > 40 THEN "focused"
    ELSE "exploratory"

levelOf(score) ==
    IF score >= 70 THEN "precise"
    ELSE IF score >= 40 THEN "focused"
    ELSE "exploratory"

\* the english label in both languages
labelOf_noZh(level, zh) ==
    IF level = "precise" THEN "Precise"
    ELSE IF level = "focused" THEN "Focused"
    ELSE "Exploratory"

\* the label of precise given to focused as well
labelOf_merged(level, zh) ==
    IF level = "exploratory"
    THEN (IF zh THEN "zh:Exploratory" ELSE "Exploratory")
    ELSE (IF zh THEN "zh:Precise" ELSE "Precise")

labelOf(level, zh) ==
    IF level = "precise" THEN (IF zh THEN "zh:Precise" ELSE "Precise")
    ELSE IF level = "focused" THEN (IF zh THEN "zh:Focused" ELSE "Focused")
    ELSE (IF zh THEN "zh:Exploratory" ELSE "Exploratory")

Push(cond, arr, msg) == IF cond THEN Append(arr, msg) ELSE arr

\* reasons that call the terms clear from a keyword score of 12
reasonsOf_kw12(len, kwScore, conScore, vagPenalty, zh) ==
    LET r1 == IF len >= 80
              THEN <<IF zh THEN "zh:Enough detail" ELSE "Enough detail">>
              ELSE <<IF zh THEN "zh:Too little detail" ELSE "Too little detail">>
        r2 == Append(r1,
                IF kwScore >= 12
                THEN (IF zh THEN "zh:Clear diagram / architecture terms"
                      ELSE "Clear diagram / architecture terms")
                ELSE (IF zh THEN "zh:Few diagram terms (a bit vague)"
                      ELSE "Few diagram terms (a bit vague)"))
        r3 == Append(r2,
                IF conScore >= 10
                THEN (IF zh THEN "zh:Has constraints / categories (more controllable)"
                      ELSE "Has constraints / categories (more controllable)")
                ELSE (IF zh THEN "zh:Few constraints (model may drift)"
                      ELSE "Few constraints (model may drift)"))
    IN  Push(vagPenalty > 0, r3,
             IF zh THEN "zh:Contains vague words (reduces control)"
             ELSE "Contains vague words (reduces control)")

\* the reasons, from the length and the sub-scores
reasonsOf(len, kwScore, conScore, vagPenalty, zh) ==
    LET r1 == IF len >= 80
              THEN <<IF zh THEN "zh:Enough detail" ELSE "Enough detail">>
              ELSE <<IF zh THEN "zh:Too little detail" ELSE "Too little detail">>
        r2 == Append(r1,
                IF kwScore >= 18
                THEN (IF zh THEN "zh:Clear diagram / architecture terms"
                      ELSE "Clear diagram / architecture terms")
                ELSE (IF zh THEN "zh:Few diagram terms (a bit vague)"
                      ELSE "Few diagram terms (a bit vague)"))
        r3 == Append(r2,
                IF conScore >= 10
                THEN (IF zh THEN "zh:Has constraints / categories (more controllable)"
                      ELSE "Has constraints / categories (more controllable)")
                ELSE (IF zh THEN "zh:Few constraints (model may drift)"
                      ELSE "Few constraints (model may drift)"))
    IN  Push(vagPenalty > 0, r3,
             IF zh THEN "zh:Contains vague words (reduces control)"
             ELSE "Contains vague words (reduces control)")

\* suggestions whose first entry is given up to a score of 40
suggestionsOf_le40(score, conScore, strScore, zh) ==
    LET s1 == Push(score <= 40, <<>>,
                   IF zh THEN "zh:Add: diagram type + relationships"
                   ELSE "Add: diagram type + relationships")
        s2 == Push(conScore < 8, s1,
                   IF zh THEN "zh:Add 1-2 hard constraints"
                   ELSE "Add 1-2 hard constraints")
    IN  Push(strScore < 10, s2,
             IF zh THEN "zh:Group with commas/line breaks"
             ELSE "Group with commas/line breaks")

\* the suggestions, from the score and the sub-scores
suggestionsOf(score, conScore, strScore, zh) ==
    LET s1 == Push(score < 40, <<>>,
                   IF zh THEN "zh:Add: diagram type + relationships"
                   ELSE "Add: diagram type + relationships")
        s2 == Push(conScore < 8, s1,
                   IF zh THEN "zh:Add 1-2 hard constraints"
                   ELSE "Add 1-2 hard constraints")
    IN  Push(strScore < 10, s2,
             IF zh THEN "zh:Group with commas/line breaks"
             ELSE "Group with commas/line breaks")

\* the early return for a text that is empty after trim
emptyVerdict(language) ==
    [score |-> 0,
     level |-> "exploratory",
     label |-> IF language = "zh" THEN "zh:Empty" ELSE "Empty",
     reasons |-> <<IF language = "zh" THEN "zh:No prompt yet" ELSE "No prompt yet">>,
     suggestions |-> <<IF language = "zh"
                       THEN "zh:Start with: subject + diagram type + relationships"
                       ELSE "Start with: subject + diagram type + relationships">>]

\* the verdict of a text that is not empty after trim
scoredVerdict(text, language) ==
    LET len == StrLen(text)
        strScore == structureScore(text)
        kwScore == keywordScore(text)
        conScore == constraintsScore(text)
        vagPenalty == vaguePenalty(text)
        score == clamp(lenScore(len) + strScore + kwScore + conScore
                       - vagPenalty, 0, 100)
        level == levelOf(score)
        zh == language = "zh"
    IN  [score |-> score,
         level |-> level,
         label |-> labelOf(level, zh),
         reasons |-> reasonsOf(len, kwScore, conScore, vagPenalty, zh),
         suggestions |-> suggestionsOf(score, conScore, strScore, zh)]

\* a JavaScript value handed to the analyzer: a string or a value without a
\* trim method
Str(s) == [type |-> "string", str |-> s]
NonText(t) == [type |-> t, str |-> <<>>]

NoVerdict == [score |-> -1, level |-> "", label |-> "", reasons |-> <<>>,
              suggestions |-> <<>>]
NotCalled == [state |-> "none", error |-> "", value |-> NoVerdict]
Returned(v) == [state |-> "returned", error |-> "", value |-> v]
Threw(e) == [state |-> "threw", error |-> e, value |-> NoVerdict]

\* an analyzer that throws on a text that is empty after trim
analyzePromptStrength_noEmpty(raw, language) ==
    IF raw.type # "string" THEN Threw("TypeError")
    ELSE LET text == Trim(raw.str)
         IN  IF text = <<>> THEN Threw("TypeError")
             ELSE Returned(scoredVerdict(text, language))

\* an analyzer with a flag that survives the call: every second call sees an
\* empty text
analyzePromptStrength_stateful(raw, language) ==
    IF raw.type # "string" THEN Threw("TypeError")
    ELSE LET text == IF calls % 2 = 1 THEN <<>> ELSE Trim(raw.str)
         IN  IF text = <<>> THEN Returned(emptyVerdict(language))
             ELSE Returned(scoredVerdict(text, language))

\* analyzePromptStrength(raw, language): raw.trim() throws a TypeError on a
\* value that has no trim method
analyzePromptStrength(raw, language) ==
    IF raw.type # "string" THEN Threw("TypeError")
    ELSE LET text == Trim(raw.str)
         IN  IF text = <<>> THEN Returned(emptyVerdict(language))
             ELSE Returned(scoredVerdict(text, language))

----------------------------------------------------------------------------
(* The input space *)

Languages == {"en", "zh"}

RECURSIVE SeqsUpTo(_, _)
\* the sequences of at most n elements of S
SeqsUpTo(S, n) ==
    IF n = 0 THEN {<<>>}
    ELSE LET shorter == SeqsUpTo(S, n - 1)
         IN  shorter \cup {Append(b, e) : b \in shorter, e \in S}

\* lengths of the filler word in front of a body; with a body they reach both
\* sides of every step of lenScore
Pads == {0, 36, 78, 118, 258, 378}

WithPad(n, body) == IF n = 0 THEN body ELSE <<Filler(n)>> \o body

\* the body behind a filler that brings the text to FitLen characters
Fit(body) == <<Filler(FitLen - StrLen(body))>> \o body

Bodies == SeqsUpTo({El(a) : a \in Alphabet}, MaxLen)

NonTexts == {NonText("null"), NonText("undefined"), NonText("number")}

Inputs ==
    {Str(WithPad(n, b)) : n \in Pads, b \in Bodies}
    \cup {Str(Fit(b)) : b \in Bodies}
    \cup NonTexts

ProbeAlphabet == {"SP", ",", "nice"}
ProbePads == {0, 258}
ProbeBodies == SeqsUpTo({El(a) : a \in ProbeAlphabet}, MaxProbeLen)

ProbeInputs ==
    {Str(WithPad(n, b)) : n \in ProbePads, b \in ProbeBodies} \cup NonTexts

----------------------------------------------------------------------------
(* The prompt compiler (src/app/api/generate-diagrams/prompts.ts)          *)
(*                                                                         *)
(* A fixed line of a template literal is one element named by its text     *)
(* (en dashes and arrows of the source written in ASCII) with the line's   *)
(* length; the line breaks between the lines, and every character of the   *)
(* interpolated userPrompt and intent, are elements of their own.          *)

Ln(text, n) == <<text, n>>
NL == El("NL")

RECURSIVE Join(_, _)
\* Array.prototype.join
Join(arr, sep) ==
    IF arr = <<>> THEN <<>>
    ELSE IF Len(arr) = 1 THEN arr[1]
    ELSE arr[1] \o sep \o Join(Tail(arr), sep)

\* a template literal of fixed lines after its trim()
Block(ls) == Join([i \in DOMAIN ls |-> <<ls[i]>>], <<NL>>)

\* Array.prototype.filter(Boolean) on an array of strings
FilterBoolean(arr) == SelectSeq(arr, LAMBDA b : b # <<>>)

\* the value of an omitted optional field
Undefined == "<undefined>"

\* a destructuring default
Default(v, d) == IF v = Undefined THEN d ELSE v

\* systemRole()
systemRole ==
    Block(<< Ln("You are an architectural diagram generator for spatial design thinking.", 71),
             Ln("Your output must look like a clean studio / portfolio diagram, not an illustration.", 83) >>)

\* qualityBlock: the draft statement
qualityDraft ==
    Block(<< Ln("Mode: DRAFT", 11),
             Ln("Goal: fast ideation and variation. Keep it simple and readable.", 63) >>)

\* qualityBlock: the portfolio statement
qualityPortfolio ==
    Block(<< Ln("Mode: PORTFOLIO", 15),
             Ln("Goal: portfolio-ready clarity, disciplined composition, consistent graphics.", 76) >>)

\* renderingConstraints: the common constraints
common ==
    Block(<< Ln("Rendering constraints (MANDATORY):", 34),
             Ln("- Architectural diagram, NOT a sketch, NOT an illustration, NOT a rendering", 75),
             Ln("- White background only", 23),
             Ln("- Flat graphic output (no textures, no material realism)", 56),
             Ln("- No shadows, no gradients, no 3D shading", 41),
             Ln("- No people, no furniture, no trees, no realistic context", 57),
             Ln("- Use rectilinear / geometric block volumes", 43),
             Ln("- Use a clean axonometric OR orthographic projection (avoid strong perspective distortion)", 90),
             Ln("- Maintain generous negative space", 34),
             Ln("- Keep edges crisp and readable", 31) >>)

\* renderingConstraints: the minimal style
lineworkMinimal ==
    Block(<< Ln("Linework style:", 15),
             Ln("- Thin, consistent black lineweight", 35),
             Ln("- Clean outlines with uniform stroke", 36),
             Ln("- If fills exist, keep them very light (or none)", 48),
             Ln("- Arrows are simple, consistent, and minimal", 44) >>)

\* renderingConstraints: the bold style
boldColors ==
    Block(<< Ln("Color style:", 12),
             Ln("- Use only primary colors: red, blue, yellow (plus black outlines)", 66),
             Ln("- Flat fills, no gradients", 26),
             Ln("- High contrast but disciplined composition", 43),
             Ln("- Limit palette (do not introduce extra colors)", 47),
             Ln("- Keep arrows and outlines consistent", 37) >>)

\* renderingConstraints: the portfolio extras
portfolioPolish ==
    Block(<< Ln("Portfolio polish:", 17),
             Ln("- Balanced margins and centered composition", 43),
             Ln("- Avoid clutter and decorative elements", 39),
             Ln("- Ensure a strong figure-ground relationship", 44),
             Ln("- Maintain consistent spacing between blocks", 44) >>)

\* compositionConstraints: draft
compositionDraft ==
    Block(<< Ln("Composition:", 12),
             Ln("- Keep layout simple and readable", 33),
             Ln("- Avoid too many elements", 25),
             Ln("- Prioritize clarity over completeness", 38) >>)

\* compositionConstraints: portfolio
compositionPortfolio ==
    Block(<< Ln("Composition:", 12),
             Ln("- Centered layout with clear hierarchy", 38),
             Ln("- 1 main reading focus + supporting elements", 44),
             Ln("- Strong alignment and consistent spacing", 41),
             Ln("- Do not overcrowd the canvas", 29) >>)

\* diagramGrammar()
diagramGrammar ==
    Block(<< Ln("Diagram grammar:", 16),
             Ln("- Use block volumes to represent spaces/programs", 48),
             Ln("- Use arrows to represent movement only when relevant", 53),
             Ln("- Use dashed lines sparingly to indicate secondary / optional relationships", 75),
             Ln("- Use minimal annotation (prefer none). If any marks appear, keep them abstract (no text)", 89),
             Ln("- Prioritize: hierarchy, adjacency, sequence, and legibility", 60) >>)

\* presetBlock: massing
presetMassing ==
    Block(<< Ln("Diagram type: MASSING & VOLUME", 30),
             Ln("- 2-4 primary volumes (simple blocks)", 37),
             Ln("- Show hierarchy via size/height (conceptual)", 45),
             Ln("- Emphasize solid-void relationships", 36) >>)

\* presetBlock: circulation
presetCirculation ==
    Block(<< Ln("Diagram type: CIRCULATION FLOW", 30),
             Ln("- Circulation is the primary subject", 36),
             Ln("- Use arrows to show direction", 30),
             Ln("- Distinguish primary vs secondary paths clearly", 48),
             Ln("- Keep volumes minimal and secondary", 36) >>)

\* presetBlock: zoning
presetZoning ==
    Block(<< Ln("Diagram type: PROGRAM ZONING", 28),
             Ln("- Use distinct blocks to represent zones", 40),
             Ln("- Show adjacency and separation", 31),
             Ln("- Emphasize public/semi-public/private gradient", 47) >>)

\* presetBlock: program
presetProgram ==
    Block(<< Ln("Diagram type: PROGRAM HIERARCHY", 31),
             Ln("- Show primary vs secondary spaces with size and grouping", 57),
             Ln("- Emphasize hierarchy and clustering", 36),
             Ln("- Avoid detailed partitions; stay abstract", 42) >>)

\* presetBlock: immersive
presetImmersive ==
    Block(<< Ln("Diagram type: SPATIAL EXPERIENCE", 32),
             Ln("- Show a clear sequence of spaces (journey)", 43),
             Ln("- Highlight nodes, thresholds, transitions", 42),
             Ln("- Compression/release can be expressed via volume size and spacing", 66) >>)

\* presetBlock: process
presetProcess ==
    Block(<< Ln("Diagram type: DESIGN PROCESS", 28),
             Ln("- Show 3-5 steps or states", 26),
             Ln("- Use arrows to indicate transformation", 39),
             Ln("- Each step must be clearly separated and readable", 50) >>)

\* presetBlock: default
presetGeneric ==
    Block(<< Ln("Diagram type: GENERIC ARCHITECTURAL CONCEPT", 43),
             Ln("- Focus on spatial relationships and clarity", 44),
             Ln("- Keep abstraction high", 23) >>)

\* emphasisBlock: massing
emphasisMassing ==
    Block(<< Ln("Emphasis override:", 18),
             Ln("- MASSING ONLY", 14),
             Ln("- No arrows", 11),
             Ln("- No internal subdivision", 25),
             Ln("- Show solid volumes and their relationship only", 48) >>)

\* emphasisBlock: circulation
emphasisCirculation ==
    Block(<< Ln("Emphasis override:", 18),
             Ln("- CIRCULATION ONLY", 18),
             Ln("- Show arrows/paths as the main content", 39),
             Ln("- Volumes should be minimal outlines or very light blocks", 57) >>)

\* emphasisBlock: program
emphasisProgram ==
    Block(<< Ln("Emphasis override:", 18),
             Ln("- PROGRAM ONLY", 14),
             Ln("- Show program blocks and adjacency clearly", 43),
             Ln("- Minimize arrows; avoid circulation detail", 43) >>)

\* emphasisBlock: experience
emphasisExperience ==
    Block(<< Ln("Emphasis override:", 18),
             Ln("- EXPERIENCE SEQUENCE", 21),
             Ln("- Focus on transitions and nodes", 32),
             Ln("- Use arrows sparingly to guide reading order", 45) >>)

\* emphasisBlock: default
emphasisBalanced ==
    Block(<< Ln("Emphasis:", 9),
             Ln("- Balanced: volumes + relationships (and arrows only if relevant)", 65) >>)

\* outputReminder()
outputReminder ==
    Block(<< Ln("Output requirements:", 20),
             Ln("- Single diagram image", 22),
             Ln("- Clean white background", 24),
             Ln("- Diagrammatic clarity above all", 32) >>)

qualityBlock(quality) ==
    IF quality = "draft" THEN qualityDraft ELSE qualityPortfolio

renderingConstraints(style, quality) ==
    LET portfolioExtras ==
            IF quality = "portfolio" THEN portfolioPolish ELSE <<>>
    IN  Join(FilterBoolean(<<common,
                             IF style = "minimal" THEN lineworkMinimal
                                                  ELSE boldColors,
                             portfolioExtras>>),
             <<NL, NL>>)

compositionConstraints(quality) ==
    IF quality = "draft" THEN compositionDraft ELSE compositionPortfolio

presetBlock(preset) ==
    CASE preset = "massing" -> presetMassing
      [] preset = "circulation" -> presetCirculation
      [] preset = "zoning" -> presetZoning
      [] preset = "program" -> presetProgram
      [] preset = "immersive" -> presetImmersive
      [] preset = "process" -> presetProcess
      [] OTHER -> presetGeneric

emphasisBlock(emphasis) ==
    CASE emphasis = "massing" -> emphasisMassing
      [] emphasis = "circulation" -> emphasisCirculation
      [] emphasis = "program" -> emphasisProgram
      [] emphasis = "experience" -> emphasisExperience
      [] OTHER -> emphasisBalanced

IntentHeader == Ln("Specific intent focus:", 22)

\* an intent block that is emitted for every intent
intentBlock_always(intent) ==
    Trim(<<NL, IntentHeader, NL, El("-"), El("SP")>> \o intent.str \o <<NL>>)

intentBlock(intent) ==
    IF intent.type # "string" \/ intent.str = <<>> THEN <<>>
    ELSE Trim(<<NL, IntentHeader, NL, El("-"), El("SP")>>
              \o intent.str \o <<NL>>)

UserHeader == Ln("Design description from user:", 29)
Placeholder == Ln("(no additional input)", 21)

\* a user request block that echoes the text untrimmed
userRequestBlock_raw(userPrompt) ==
    Trim(<<NL, UserHeader, NL>> \o userPrompt.str \o <<NL>>)

userRequestBlock(userPrompt) ==
    LET trimmed == IF userPrompt.type = "string" THEN Trim(userPrompt.str)
                   ELSE <<>>
    IN  Trim(<<NL, UserHeader, NL>>
             \o (IF trimmed # <<>> THEN trimmed ELSE <<Placeholder>>)
             \o <<NL>>)

\* a compiler that puts the emphasis block in front of the preset block
buildDiagramPrompt_swapped(p) ==
    LET style == Default(p.style, "minimal")
        emphasis == Default(p.emphasis, "all")
        quality == Default(p.quality, "portfolio")
        blocks == <<systemRole,
                    qualityBlock(quality),
                    renderingConstraints(style, quality),
                    compositionConstraints(quality),
                    diagramGrammar,
                    emphasisBlock(emphasis),
                    presetBlock(p.preset),
                    intentBlock(p.intent),
                    userRequestBlock(p.userPrompt),
                    outputReminder>>
    IN  Trim(Join(FilterBoolean(blocks), <<NL, NL>>))

buildDiagramPrompt(p) ==
    LET style == Default(p.style, "minimal")
        emphasis == Default(p.emphasis, "all")
        quality == Default(p.quality, "portfolio")
        blocks == <<systemRole,
                    qualityBlock(quality),
                    renderingConstraints(style, quality),
                    compositionConstraints(quality),
                    diagramGrammar,
                    presetBlock(p.preset),
                    emphasisBlock(emphasis),
                    intentBlock(p.intent),
                    userRequestBlock(p.userPrompt),
                    outputReminder>>
    IN  Trim(Join(FilterBoolean(blocks), <<NL, NL>>))

(* The compiler's input space *)

Presets == {Undefined, "", "massing", "circulation", "zoning", "program",
            "immersive", "process", "site"}
Styles == {Undefined, "minimal", "bold", "sketch"}
Emphases == {Undefined, "all", "massing", "circulation", "program",
             "experience", "detail"}
Qualities == {Undefined, "draft", "portfolio", "print"}
TextAtoms == {"SP", "it"}
Texts == {Str(t) : t \in SeqsUpTo({El(a) : a \in TextAtoms}, MaxTextLen)}
OptionalTexts == Texts \cup {NonText("undefined")}

Configs ==
    [userPrompt : OptionalTexts, preset : Presets, style : Styles,
     emphasis : Emphases, quality : Qualities, intent : OptionalTexts]

(* The intent presets; a label is a text of one element *)

\* getIntentPresets: massing
intentsMassing ==
    << <<Ln("Overall massing hierarchy and volumetric reading", 48)>>,
       <<Ln("Site coverage and setback logic (abstract)", 42)>>,
       <<Ln("Solid-void relationships and courtyard strategy", 47)>>,
       <<Ln("Step-backs and height gradient (conceptual)", 43)>> >>

\* getIntentPresets: circulation
intentsCirculation ==
    << <<Ln("Primary circulation loop and key nodes", 38)>>,
       <<Ln("Secondary circulation branches and shortcuts", 44)>>,
       <<Ln("Entry sequence to central orientation space", 43)>>,
       <<Ln("Back-of-house vs public circulation separation", 46)>> >>

\* getIntentPresets: zoning
intentsZoning ==
    << <<Ln("Public vs private zoning separation", 35)>>,
       <<Ln("Adjacency and program clustering strategy", 41)>>,
       <<Ln("Front-of-house vs back-of-house zoning", 38)>>,
       <<Ln("Gradient of accessibility (public -> private)", 44)>> >>

\* getIntentPresets: program
intentsProgram ==
    << <<Ln("Program hierarchy (primary vs secondary spaces)", 47)>>,
       <<Ln("Adjacency map translated into block diagram", 43)>>,
       <<Ln("Public anchor spaces and supporting spaces", 42)>>,
       <<Ln("Vertical stacking logic and transitions", 39)>> >>

\* getIntentPresets: immersive
intentsImmersive ==
    << <<Ln("Experience sequence: entry -> buildup -> climax -> release", 55)>>,
       <<Ln("Moments of compression and expansion", 36)>>,
       <<Ln("Key experiential nodes and thresholds", 37)>>,
       <<Ln("Wayfinding narrative and pacing", 31)>> >>

\* getIntentPresets: process
intentsProcess ==
    << <<Ln("Step-by-step mass transformation (3-5 frames)", 45)>>,
       <<Ln("Subtraction and carving operations (conceptual)", 47)>>,
       <<Ln("Rotation/shift to form view corridors (abstract)", 48)>>,
       <<Ln("Iteration sequence with clear arrows between states", 51)>> >>

\* getIntentPresets: default
intentsGeneric ==
    << <<Ln("Overall spatial logic and hierarchy", 35)>>,
       <<Ln("Circulation and movement intent", 31)>>,
       <<Ln("Program adjacency and zoning logic", 34)>>,
       <<Ln("Experiential sequence and transitions", 37)>> >>

\* a lookup that loses the last label of the generic list
getIntentPresets_short(preset) ==
    CASE preset = "massing" -> intentsMassing
      [] preset = "circulation" -> intentsCirculation
      [] preset = "zoning" -> intentsZoning
      [] preset = "program" -> intentsProgram
      [] preset = "immersive" -> intentsImmersive
      [] preset = "process" -> intentsProcess
      [] OTHER -> SubSeq(intentsGeneric, 1, 3)

getIntentPresets(preset) ==
    CASE preset = "massing" -> intentsMassing
      [] preset = "circulation" -> intentsCirculation
      [] preset = "zoning" -> intentsZoning
      [] preset = "program" -> intentsProgram
      [] preset = "immersive" -> intentsImmersive
      [] preset = "process" -> intentsProcess
      [] OTHER -> intentsGeneric

(* The generation route (src/app/api/generate-diagrams/route.ts) *)

\* body.count: absent, or a number given in halves (5 stands for 2.5)
NoCount == [type |-> "undefined", halves |-> 0]
Num(h) == [type |-> "number", halves |-> h]

\* Math.floor of a number given in halves
Floor(c) == c.halves \div 2

Max(a, b) == IF a > b THEN a ELSE b

\* the route's clamp: Math.max(min, Math.min(max, n))
routeClamp(n, min, max) ==
    Max(min, IF max < n THEN max ELSE n)

\* the ?? operator
Coalesce(v, d) == IF v = Undefined THEN d ELSE v

\* the locals the handler computes from the body
\* a prompt local that is not trimmed
promptOf_raw(body) ==
    IF body.prompt.type = "string" THEN body.prompt.str ELSE <<>>

promptOf(body) ==
    Trim(IF body.prompt.type = "string" THEN body.prompt.str ELSE <<>>)
presetOf(body) == Coalesce(body.preset, "")
styleOf(body) == Coalesce(body.style, "minimal")
qualityOf(body) == Coalesce(body.quality, "portfolio")
emphasisOf(body) == Coalesce(body.emphasis, "all")
\* Boolean(body.multiIntent); the JSON booleans are written "true", "false"
multiIntentOf(body) == body.multiIntent = "true"

\* a count that defaults to 2 for multi-intent requests too
requestedCount_two(body) ==
    IF body.count.type = "number" THEN routeClamp(Floor(body.count), 1, 4)
    ELSE 2

requestedCount(body) ==
    IF body.count.type = "number" THEN routeClamp(Floor(body.count), 1, 4)
    ELSE IF multiIntentOf(body) THEN 4 ELSE 2

PrimaryIntent == <<Ln("Primary diagram output", 22)>>

\* Array.prototype.slice(0, n) for n >= 0
SliceFront(arr, n) == SubSeq(arr, 1, IF n < Len(arr) THEN n ELSE Len(arr))

intentsOf(body) ==
    IF multiIntentOf(body)
    THEN SliceFront(getIntentPresets(presetOf(body)), requestedCount(body))
    ELSE <<PrimaryIntent>>

\* the prompt generateOne compiles for an intent
finalPrompt(body, intent) ==
    buildDiagramPrompt([userPrompt |-> Str(promptOf(body)),
                        preset |-> presetOf(body),
                        style |-> styleOf(body),
                        emphasis |-> emphasisOf(body),
                        quality |-> qualityOf(body),
                        intent |-> Str(intent)])

(* The route's input space *)

RoutePrompts == {NonText("undefined"), Str(<<>>), Str(<<El("SP")>>),
                 Str(<<El("it")>>), Str(<<El("SP"), El("it")>>)}
RoutePresets == {Undefined, "", "zoning", "site"}
MultiIntents == {Undefined, "false", "true"}
Counts == {NoCount} \cup {Num(h) : h \in {0, 1, 2, 5, 6, 8, 10}}

Bodies_route ==
    [prompt : RoutePrompts, preset : RoutePresets,
     style : {Undefined, "bold"}, quality : {Undefined, "draft"},
     emphasis : {Undefined, "massing"}, multiIntent : MultiIntents,
     count : Counts]

Requests == [hasKey : BOOLEAN, body : Bodies_route]

NoBody == [prompt |-> NonText("undefined"), preset |-> Undefined,
           style |-> Undefined, quality |-> Undefined,
           emphasis |-> Undefined, multiIntent |-> Undefined,
           count |-> NoCount]
NoRequest == [hasKey |-> FALSE, body |-> NoBody]
NoResponse == [status |-> 0, error |-> "", images |-> <<>>,
               results |-> <<>>, count |-> 0]

\* NextResponse.json({error}, {status})
ErrorResponse(status, msg) ==
    [status |-> status, error |-> msg, images |-> <<>>, results |-> <<>>,
     count |-> 0]

\* NextResponse.json({images, results, meta})
OkResponse(rs) ==
    [status |-> 200, error |-> "",
     images |-> [i \in DOMAIN rs |-> rs[i].b64],
     results |-> rs, count |-> Len(rs)]

\* what the provider can answer to a call: an image, a body without image
\* data, or an error with or without a status
ProviderStatuses == {0, 429}

\* the image the provider makes for the k-th call of a request
ImageOf(k) == [png |-> k]

(* The page (src/app/page.tsx) with its PromptPanel *)

STRENGTH_MIN == 25
maxChars == 500

\* the strength state: null, or the score of the verdict PromptPanel handed
\* over
NoStrength == [known |-> FALSE, score |-> 0]
Strength(n) == [known |-> TRUE, score |-> n]

RECURSIVE SliceTo(_, _)

\* a slice that cuts nothing
SliceTo_none(s, n) == s

\* String.prototype.slice(0, n); a word that is cut leaves a run of letters
SliceTo(s, n) ==
    IF s = <<>> \/ n <= 0 THEN <<>>
    ELSE IF Head(s)[2] <= n
         THEN <<Head(s)>> \o SliceTo(Tail(s), n - Head(s)[2])
         ELSE <<Filler(n)>>

\* the verdict PromptPanel computes for a value (useMemo) and hands to the
\* page in its effect; the page reads nothing but the score, which does not
\* depend on the language
panelStrength(value) ==
    Strength(analyzePromptStrength(Str(value), "en").value.score)

\* the gating flags of a render of the page
isPromptEmpty == Trim(prompt) = <<>>
strengthScore == IF strength.known THEN strength.score ELSE 0
isStrengthTooLow == ~isPromptEmpty /\ strengthScore < STRENGTH_MIN
isGenerateDisabled == loading \/ isPromptEmpty \/ isStrengthTooLow

\* what the user can have in the textarea after a change
TypedTexts ==
    {<<El("SP")>>, <<El("it")>>, <<Filler(40)>>, <<Filler(490)>>,
     <<Filler(501)>>}

\* two of DEFAULT_TAGS, " label key nodes" and " high contrast", and the
\* first of DEFAULT_EXAMPLES; a word that is no keyword is a run of letters,
\* "Massing" and "volumes" are written as the keyword "diagram" of the same
\* pattern and length, "contrast" as "grid" and four letters, ":" as ","
TagLabelKeyNodes ==
    <<El("SP"), El("label"), El("SP"), Filler(3), El("SP"), Filler(5)>>
TagHighContrast ==
    <<El("SP"), Filler(4), El("SP"), El("grid"), Filler(4)>>
Tags == {TagLabelKeyNodes, TagHighContrast}
ExampleExploration ==
    <<El("diagram"), El("SP"), Filler(5), El("SP"), Filler(2), El("SP"),
      Filler(1), El("SP"), Filler(9), El("SP"), Filler(7), El(","),
      El("SP"), Filler(6), El("SP"), Filler(7), El("SP"), El("diagram"),
      El(","), El("SP"), Filler(9), El("SP"), Filler(4), El(","), El("SP"),
      Filler(5), El("SP"), Filler(8), El("SP"), Filler(4), El(".")>>
Examples == {ExampleExploration}

\* insertText's next value, before the slice
insertText(value, t) ==
    (IF value # <<>> THEN TrimEnd(value) ELSE <<>>)
    \o (IF value # <<>> THEN <<El("NL")>> ELSE <<>>) \o t

\* appendTag's next value, before the slice
appendTag(value, t) == value \o t

\* what the fetch can deliver as data.images
ImageLists == {<<>>, <<ImageOf(1)>>}

\* a generation request that is in flight, and the same request settled
Pending(f) == f.state = "pending"
Settle(fs, i) == [fs EXCEPT ![i].state = "settled"]

NoParams == [userPrompt |-> Str(<<>>), preset |-> Undefined,
             style |-> Undefined, emphasis |-> Undefined,
             quality |-> Undefined, intent |-> NonText("undefined")]
NotBuilt == [state |-> "none", out |-> <<>>]
Built(s) == [state |-> "returned", out |-> s]

----------------------------------------------------------------------------
(* The analyzer under calls *)

NoCall == [called |-> FALSE, raw |-> Str(<<>>), language |-> "en",
           result |-> NotCalled]

\* no prompt has been compiled
CompilerIdle ==
    /\ params = NoParams
    /\ built = NotBuilt

\* getIntentPresets has not been called
LookupIdle == lookups = <<>>

\* the route has no request
RouteIdle ==
    /\ request = NoRequest
    /\ routePc = "idle"
    /\ intents = <<>>
    /\ results = <<>>
    /\ providerLog = <<>>
    /\ response = NoResponse

\* no page is open
PageIdle ==
    /\ prompt = <<>>
    /\ strength = NoStrength
    /\ callbacks = <<>>
    /\ loading = FALSE
    /\ error = ""
    /\ images = <<>>
    /\ fetches = <<>>

Init ==
    /\ argRaw \in Inputs
    /\ argLanguage \in Languages
    /\ result = NotCalled
    /\ first = NoCall
    /\ calls = 0
    /\ CompilerIdle
    /\ LookupIdle
    /\ RouteIdle
    /\ PageIdle

\* before the first call of a sequence of calls
AnalyzerIdle ==
    /\ argRaw = Str(<<>>)
    /\ argLanguage = "en"
    /\ result = NotCalled
    /\ first = NoCall
    /\ calls = 0

InitCalls ==
    /\ AnalyzerIdle
    /\ CompilerIdle
    /\ LookupIdle
    /\ RouteIdle
    /\ PageIdle

\* one call analyzePromptStrength(r, l)
Call(r, l) ==
    LET out == analyzePromptStrength(r, l)
    IN  /\ argRaw' = r
        /\ argLanguage' = l
        /\ result' = out
        /\ first' = IF first.called THEN first
                    ELSE [called |-> TRUE, raw |-> r, language |-> l,
                          result |-> out]
        /\ calls' = calls + 1
        /\ UNCHANGED <<compilerVars, lookupVars, routeVars, pageVars>>

\* the call on the input that was drawn
Analyze ==
    /\ calls = 0
    /\ Call(argRaw, argLanguage)

Next == Analyze

Spec == Init /\ [][Next]_vars

\* a call after any number of earlier calls
AnalyzeAgain ==
    /\ calls < MaxCalls
    /\ \E r \in ProbeInputs, l \in Languages : Call(r, l)

NextCalls == AnalyzeAgain

SpecCalls == InitCalls /\ [][NextCalls]_vars

----------------------------------------------------------------------------
(* The compiler under a call *)

\* a config has been drawn, the compiler has not been called on it
InitCompiler ==
    /\ params \in Configs
    /\ built = NotBuilt
    /\ AnalyzerIdle
    /\ LookupIdle
    /\ RouteIdle
    /\ PageIdle

\* the call buildDiagramPrompt(params)
Build ==
    /\ built.state = "none"
    /\ built' = Built(buildDiagramPrompt(params))
    /\ UNCHANGED <<params, analyzerVars, lookupVars, routeVars, pageVars>>

NextCompiler == Build

SpecCompiler == InitCompiler /\ [][NextCompiler]_vars

----------------------------------------------------------------------------
(* The intent presets under calls *)

InitLookups ==
    /\ LookupIdle
    /\ AnalyzerIdle
    /\ CompilerIdle
    /\ RouteIdle
    /\ PageIdle

\* one call getIntentPresets(preset)
Lookup ==
    /\ Len(lookups) < MaxLookups
    /\ \E preset \in Presets :
           lookups' = Append(lookups, [preset |-> preset,
                                       out |-> getIntentPresets(preset)])
    /\ UNCHANGED <<analyzerVars, compilerVars, routeVars, pageVars>>

NextLookups == Lookup

SpecLookups == InitLookups /\ [][NextLookups]_vars

----------------------------------------------------------------------------
(* The route under a request *)

\* a request has arrived, the handler has not run
InitRoute ==
    /\ request \in Requests
    /\ routePc = "received"
    /\ intents = <<>>
    /\ results = <<>>
    /\ providerLog = <<>>
    /\ response = NoResponse
    /\ AnalyzerIdle
    /\ CompilerIdle
    /\ LookupIdle
    /\ PageIdle

\* a handler that calls the provider for every intent of the body at once
IssueCall_all(body, intent) ==
    providerLog' = providerLog
                   \o [k \in DOMAIN intentsOf(body) |->
                          [intent |-> intentsOf(body)[k],
                           prompt |-> finalPrompt(body, intentsOf(body)[k])]]

\* generateOne up to its await: compile the prompt, call the provider
IssueCall(body, intent) ==
    providerLog' = Append(providerLog,
                          [intent |-> intent,
                           prompt |-> finalPrompt(body, intent)])

\* the handler from its start to the first provider call or to an early
\* response
Post ==
    /\ routePc = "received"
    /\ IF ~request.hasKey
       THEN /\ response' = ErrorResponse(500,
                               "OPENAI_API_KEY is missing in .env.local")
            /\ routePc' = "done"
            /\ UNCHANGED <<intents, results, providerLog>>
       ELSE IF promptOf(request.body) = <<>> /\ presetOf(request.body) = ""
       THEN /\ response' = ErrorResponse(400, "Prompt or preset is required.")
            /\ routePc' = "done"
            /\ UNCHANGED <<intents, results, providerLog>>
       ELSE /\ intents' = intentsOf(request.body)
            /\ results' = <<>>
            /\ IssueCall(request.body, intentsOf(request.body)[1])
            /\ routePc' = "awaiting"
            /\ UNCHANGED response
    /\ UNCHANGED <<request, analyzerVars, compilerVars, lookupVars, pageVars>>

\* the provider answers the outstanding call with an image: the result is
\* pushed, and the loop calls for the next intent or the handler responds
ProviderReturnsImage ==
    /\ routePc = "awaiting"
    /\ LET item == [intent |-> intents[Len(results) + 1],
                    b64 |-> ImageOf(Len(providerLog))]
           pushed == Append(results, item)
       IN  /\ results' = pushed
           /\ IF Len(pushed) < Len(intents)
              THEN /\ IssueCall(request.body, intents[Len(pushed) + 1])
                   /\ routePc' = "awaiting"
                   /\ UNCHANGED response
              ELSE /\ response' = OkResponse(pushed)
                   /\ routePc' = "done"
                   /\ UNCHANGED providerLog
    /\ UNCHANGED <<request, intents, analyzerVars, compilerVars, lookupVars,
                   pageVars>>

\* a handler that answers an empty provider answer with the results so far
ProviderReturnsEmpty_partial ==
    /\ routePc = "awaiting"
    /\ response' = OkResponse(results)
    /\ routePc' = "done"
    /\ UNCHANGED <<request, intents, results, providerLog, analyzerVars,
                   compilerVars, lookupVars, pageVars>>

\* the provider answers without image data: generateOne throws, the catch
\* block responds
ProviderReturnsEmpty ==
    /\ routePc = "awaiting"
    /\ response' = ErrorResponse(500, "Image API returned empty data.")
    /\ routePc' = "done"
    /\ UNCHANGED <<request, intents, results, providerLog, analyzerVars,
                   compilerVars, lookupVars, pageVars>>

\* the provider call rejects; the error may carry a status
ProviderFails ==
    /\ routePc = "awaiting"
    /\ \E st \in ProviderStatuses :
           response' = ErrorResponse(IF st # 0 THEN st ELSE 500,
                                     "provider error")
    /\ routePc' = "done"
    /\ UNCHANGED <<request, intents, results, providerLog, analyzerVars,
                   compilerVars, lookupVars, pageVars>>

NextRoute ==
    \/ Post
    \/ ProviderReturnsImage
    \/ ProviderReturnsEmpty
    \/ ProviderFails

SpecRoute == InitRoute /\ [][NextRoute]_vars

----------------------------------------------------------------------------
(* The page under edits, strength callbacks, clicks and fetch outcomes *)

\* the page has mounted: the effect of PromptPanel's first render is due
InitPage ==
    /\ prompt = <<>>
    /\ strength = NoStrength
    /\ callbacks = <<panelStrength(<<>>)>>
    /\ loading = FALSE
    /\ error = ""
    /\ images = <<>>
    /\ fetches = <<>>
    /\ AnalyzerIdle
    /\ CompilerIdle
    /\ LookupIdle
    /\ RouteIdle

\* the textarea's onChange: the page takes the value, drops a gating error,
\* PromptPanel renders with the value and its effect becomes due
Edit ==
    /\ Len(callbacks) < MaxCallbacks
    /\ \E t \in TypedTexts :
           LET v == SliceTo(t, maxChars)
           IN  /\ prompt' = v
               /\ callbacks' = IF v # prompt
                                THEN Append(callbacks, panelStrength(v))
                                ELSE callbacks
    /\ error' = IF error \in {"promptRequired", "promptTooWeak"} THEN ""
                ELSE error
    /\ UNCHANGED <<strength, loading, images, fetches, analyzerVars,
                   compilerVars, lookupVars, routeVars>>

\* a click on a tag chip: appendTag, then what the page and PromptPanel do
\* on a change
AppendTag ==
    /\ Len(callbacks) < MaxCallbacks
    /\ Len(prompt) < MaxPromptEls
    /\ \E t \in Tags :
           LET v == SliceTo(appendTag(prompt, t), maxChars)
           IN  /\ prompt' = v
               /\ callbacks' = IF v # prompt
                                THEN Append(callbacks, panelStrength(v))
                                ELSE callbacks
    /\ error' = IF error \in {"promptRequired", "promptTooWeak"} THEN ""
                ELSE error
    /\ UNCHANGED <<strength, loading, images, fetches, analyzerVars,
                   compilerVars, lookupVars, routeVars>>

\* a click on an example: insertText, then what the page and PromptPanel do
\* on a change
InsertExample ==
    /\ Len(callbacks) < MaxCallbacks
    /\ Len(prompt) < MaxPromptEls
    /\ \E t \in Examples :
           LET v == SliceTo(insertText(prompt, t), maxChars)
           IN  /\ prompt' = v
               /\ callbacks' = IF v # prompt
                                THEN Append(callbacks, panelStrength(v))
                                ELSE callbacks
    /\ error' = IF error \in {"promptRequired", "promptTooWeak"} THEN ""
                ELSE error
    /\ UNCHANGED <<strength, loading, images, fetches, analyzerVars,
                   compilerVars, lookupVars, routeVars>>

\* the effect's onStrengthChangeAction(strength) reaches the page state
StrengthCallback ==
    /\ callbacks # <<>>
    /\ strength' = Head(callbacks)
    /\ callbacks' = Tail(callbacks)
    /\ UNCHANGED <<prompt, loading, error, images, fetches, analyzerVars,
                   compilerVars, lookupVars, routeVars>>

\* a click on Generate while the button is not disabled: handleGenerate up
\* to its fetch
ClickGenerate ==
    /\ ~isGenerateDisabled
    /\ Len(fetches) < MaxFetches
    /\ loading' = TRUE
    /\ error' = ""
    /\ images' = <<>>
    /\ fetches' = Append(fetches,
                         [prompt |-> prompt, state |-> "pending",
                          overlaps |-> \E i \in DOMAIN fetches :
                                          Pending(fetches[i])])
    /\ UNCHANGED <<prompt, strength, callbacks, analyzerVars, compilerVars,
                   lookupVars, routeVars>>

\* the fetch returns an OK response
FetchOk ==
    /\ \E i \in DOMAIN fetches :
           /\ Pending(fetches[i])
           /\ fetches' = Settle(fetches, i)
    /\ \E imgs \in ImageLists : images' = imgs
    /\ loading' = FALSE
    /\ UNCHANGED <<prompt, strength, callbacks, error, analyzerVars,
                   compilerVars, lookupVars, routeVars>>

\* the fetch returns a response that is not OK
FetchNotOk ==
    /\ \E i \in DOMAIN fetches :
           /\ Pending(fetches[i])
           /\ fetches' = Settle(fetches, i)
    /\ error' = "Failed to generate diagrams."
    /\ loading' = FALSE
    /\ UNCHANGED <<prompt, strength, callbacks, images, analyzerVars,
                   compilerVars, lookupVars, routeVars>>

\* a handler without the finally block: a rejected fetch leaves loading set
FetchThrows_stuck ==
    /\ \E i \in DOMAIN fetches :
           /\ Pending(fetches[i])
           /\ fetches' = Settle(fetches, i)
    /\ error' = "Unknown error"
    /\ UNCHANGED <<prompt, strength, callbacks, loading, images,
                   analyzerVars, compilerVars, lookupVars, routeVars>>

\* the fetch rejects
FetchThrows ==
    /\ \E i \in DOMAIN fetches :
           /\ Pending(fetches[i])
           /\ fetches' = Settle(fetches, i)
    /\ error' = "Unknown error"
    /\ loading' = FALSE
    /\ UNCHANGED <<prompt, strength, callbacks, images, analyzerVars,
                   compilerVars, lookupVars, routeVars>>

NextPage ==
    \/ Edit
    \/ StrengthCallback
    \/ ClickGenerate
    \/ FetchOk
    \/ FetchNotOk
    \/ FetchThrows

SpecPage == InitPage /\ [][NextPage]_vars

\* the page under the changes PromptPanel can make to the prompt: typing,
\* tag chips and examples, with the strength callbacks they cause
NextPanel ==
    \/ Edit
    \/ AppendTag
    \/ InsertExample
    \/ StrengthCallback

SpecPanel == InitPage /\ [][NextPanel]_vars

\* the page when every fetch settles: it returns or it rejects
FetchSettles == FetchOk \/ FetchNotOk \/ FetchThrows
SpecPageFair == SpecPage /\ WF_vars(FetchSettles)

----------------------------------------------------------------------------
(* Properties of the analyzer *)

Called == result.state # "none"
Returns == result.state = "returned"
IsText == argRaw.type = "string"
\* the trimmed text of the current call
CurText == Trim(argRaw.str)
IsBlank == IsText /\ CurText = <<>>
V == result.value

\* the score the analyzer gives the text s in the language of the current call
ScoreOf(s) == analyzePromptStrength(Str(s), argLanguage).value.score

\* number of elements of s that stand for a word of the classes cls
Occurrences(s, cls) == Cardinality({i \in 1..Len(s) : Kind(s[i]) \in cls})

KeywordAtoms == {"diagram", "circulation", "grid", "label", "DX"}
VagueAtoms == {"nice", "HK"}
RoleAtoms == {"staff"}

\* C1: the score is an integer in 0..100 and the level is the bucket of the
\* score: precise iff score >= 70, focused iff 40 <= score <= 69,
\* exploratory iff score <= 39
Thm_C1 ==
    (IsText /\ Called) =>
        /\ Returns
        /\ V.score \in 0..100
        /\ V.level \in {"precise", "focused", "exploratory"}
        /\ V.level = "precise" <=> V.score >= 70
        /\ V.level = "focused" <=> (V.score >= 40 /\ V.score <= 69)
        /\ V.level = "exploratory" <=> V.score <= 39

\* a text that scores exactly 70 and is precise
Wit_C1 == IsText /\ Returns /\ V.score = 70 /\ V.level = "precise"

\* the message of the early return in each language
NoPromptReason(l) == IF l = "zh" THEN "zh:No prompt yet" ELSE "No prompt yet"
NoPromptSuggestion(l) ==
    IF l = "zh" THEN "zh:Start with: subject + diagram type + relationships"
    ELSE "Start with: subject + diagram type + relationships"

\* C2: a text that is empty or only white space gets score 0, level
\* exploratory, exactly one reason and exactly one suggestion, both in the
\* requested language
Thm_C2 ==
    (Called /\ IsText /\ \A i \in 1..Len(argRaw.str) : IsWs(argRaw.str[i])) =>
        /\ Returns
        /\ V.score = 0
        /\ V.level = "exploratory"
        /\ V.reasons = <<NoPromptReason(argLanguage)>>
        /\ V.suggestions = <<NoPromptSuggestion(argLanguage)>>

\* a call in zh on a text of a blank and a line feed
Wit_C2 ==
    /\ Returns
    /\ argRaw = Str(<<El("SP"), El("NL")>>)
    /\ argLanguage = "zh"
    /\ V.score = 0

\* C3 as stated: the reasons list has at least 4 entries for every text
Cex_C3 == (IsText /\ Returns) => Len(V.reasons) >= 4

\* C3 amended: the reasons list is never empty: it has exactly 1 entry for a
\* blank text, 3 entries for a non-blank text without a vague word and 4
\* entries for a non-blank text with a vague word
Thm_C3 ==
    (IsText /\ Called) =>
        /\ Returns
        /\ Len(V.reasons) >= 1
        /\ IsBlank => Len(V.reasons) = 1
        /\ (~IsBlank /\ Occurrences(CurText, VagueAtoms) = 0)
              => Len(V.reasons) = 3
        /\ (~IsBlank /\ Occurrences(CurText, VagueAtoms) > 0)
              => Len(V.reasons) = 4

\* a non-blank text with three reasons
Wit_C3 == IsText /\ Returns /\ ~IsBlank /\ Len(V.reasons) = 3

Min(a, b) == IF a < b THEN a ELSE b

\* C4 as stated: the keyword score is min(30, 6 * number of keyword
\* occurrences), every occurrence counted
Cex_C4 ==
    (Returns /\ ~IsBlank) =>
        keywordScore(CurText)
            = Min(30, 6 * ( Occurrences(CurText, kw[1].cls)
                          + Occurrences(CurText, kw[2].cls)
                          + Occurrences(CurText, kw[3].cls)
                          + Occurrences(CurText, kw[4].cls)
                          + Occurrences(CurText, kw[5].cls) ))

\* C5 as stated: the vagueness penalty is min(20, 8 * number of occurrences
\* of vague words)
Cex_C5 ==
    (Returns /\ ~IsBlank) =>
        vaguePenalty(CurText)
            = Min(20, 8 * ( Occurrences(CurText, vague[1].cls)
                          + Occurrences(CurText, vague[2].cls) ))

\* the phrase "make it nice"
MakeItNice == <<El("make"), El("SP"), El("it"), El("SP"), El("nice")>>

\* s with its elements i..j replaced by "make it nice"
ReplacePhrase(s, i, j) ==
    SubSeq(s, 1, i - 1) \o MakeItNice \o SubSeq(s, j + 1, Len(s))

\* atoms that add to the keyword or the constraints sub-score
SpecificAtoms == KeywordAtoms \cup RoleAtoms \cup {"3", "/"}

\* elements i..j of s are whole words: they start and end with something
\* other than white space and have white space or an end of the text on both
\* sides
WholeWords(s, i, j) ==
    /\ i <= j
    /\ ~IsWs(s[i])
    /\ ~IsWs(s[j])
    /\ i = 1 \/ IsWs(s[i - 1])
    /\ j = Len(s) \/ IsWs(s[j + 1])

\* elements i..j of s are a specific phrase: whole words that hold a keyword,
\* a number, a role word or a separator and no vague word
IsSpecificPhrase(s, i, j) ==
    /\ WholeWords(s, i, j)
    /\ \E k \in i..j : Kind(s[k]) \in SpecificAtoms
    /\ \A k \in i..j : Kind(s[k]) \notin VagueAtoms

\* both texts fall into the same step of the length score
SameLengthBand(s, t) == lenScore(StrLen(Trim(s))) = lenScore(StrLen(Trim(t)))

\* C6 as stated: replacing any specific phrase of a text by "make it nice"
\* lowers the score strictly, or both scores are 0
Cex_C6 ==
    (IsText /\ Returns) =>
        \A i, j \in 1..Len(argRaw.str) :
            IsSpecificPhrase(argRaw.str, i, j) =>
                LET after == ScoreOf(ReplacePhrase(argRaw.str, i, j))
                IN  after < V.score \/ (after = 0 /\ V.score = 0)

\* C6 amended: the score drops strictly (or both scores are at the ceiling
\* 100) when the text matched no word of the english vague group before and
\* the replacement leaves the trimmed length in the same step of the length
\* score
Thm_C6 ==
    (IsText /\ Returns) =>
        \A i, j \in 1..Len(argRaw.str) :
            ( /\ IsSpecificPhrase(argRaw.str, i, j)
              /\ Occurrences(argRaw.str, vague[1].cls) = 0
              /\ SameLengthBand(argRaw.str, ReplacePhrase(argRaw.str, i, j)) )
            => LET after == ScoreOf(ReplacePhrase(argRaw.str, i, j))
               IN  after < V.score \/ (after = 100 /\ V.score = 100)

\* "3 diagram" with "diagram" replaced: the score has dropped
Wit_C6 ==
    /\ Returns
    /\ argRaw = Str(<<El("3"), El("SP"), El("diagram")>>)
    /\ IsSpecificPhrase(argRaw.str, 3, 3)
    /\ SameLengthBand(argRaw.str, ReplacePhrase(argRaw.str, 3, 3))
    /\ ScoreOf(ReplacePhrase(argRaw.str, 3, 3)) < V.score

\* the phrase "circulation diagram"
CirculationDiagram == <<El("circulation"), El("SP"), El("diagram")>>

\* the gain in score from appending "circulation diagram" to the current text
AppendGain == ScoreOf(argRaw.str \o CirculationDiagram) - V.score

\* the current text has FitLen characters and matches no keyword group
KeywordFreeFit ==
    /\ IsText
    /\ Returns
    /\ StrLen(argRaw.str) = FitLen
    /\ Occurrences(argRaw.str, KeywordAtoms) = 0

EndsInRoleWord(s) == s # <<>> /\ Kind(s[Len(s)]) \in RoleAtoms

\* C7 as stated: appending "circulation diagram" to a keyword-free text of
\* 100 characters raises the score by at least 6
Cex_C7 == KeywordFreeFit => AppendGain >= 6

\* C7 amended: the gain is at least 6 when the text has no leading white
\* space and does not end in a role word; a role word at the end loses its
\* word boundary to the appended phrase and the gain is then at least 4
Thm_C7 ==
    (KeywordFreeFit /\ TrimStart(argRaw.str) = argRaw.str) =>
        /\ ~EndsInRoleWord(argRaw.str) => AppendGain >= 6
        /\ AppendGain >= 4

\* a keyword-free text of 100 characters with a vague word, a number and a
\* comma that gains exactly 6
Wit_C7 ==
    /\ KeywordFreeFit
    /\ ~EndsInRoleWord(argRaw.str)
    /\ Occurrences(argRaw.str, VagueAtoms) > 0
    /\ Occurrences(argRaw.str, {"3"}) > 0
    /\ AppendGain = 6

\* the verdicts of the first and of the current call of a sequence of calls
FirstV == first.result.value
TwoVerdicts ==
    /\ calls >= 2
    /\ first.result.state = "returned"
    /\ Returns
    /\ first.language = argLanguage
FirstBlank == Trim(first.raw.str) = <<>>

\* C8 as stated: two verdicts with the same level and language carry the
\* same label, for all inputs including empty text
Cex_C8 == (TwoVerdicts /\ FirstV.level = V.level) => FirstV.label = V.label

\* C8 amended: two verdicts of non-blank texts in one language carry the same
\* label exactly when they have the same level; the verdict of a blank text
\* has level exploratory and a label of its own that no non-blank text gets
Thm_C8 ==
    TwoVerdicts =>
        /\ (~FirstBlank /\ ~IsBlank)
              => (FirstV.level = V.level <=> FirstV.label = V.label)
        /\ FirstBlank
              => /\ FirstV.level = "exploratory"
                 /\ FirstV.label = V.label <=> IsBlank

\* two different non-blank texts of the same level and label
Wit_C8 ==
    /\ TwoVerdicts
    /\ ~FirstBlank
    /\ ~IsBlank
    /\ first.raw # argRaw
    /\ FirstV.level = V.level
    /\ FirstV.label = V.label

Cex_C10 == Called => (Returns /\ V.score \in Int)

\* C10 amended: every string gets a verdict with a numeric score; a value that
\* is not a string makes raw.trim() throw a TypeError
Thm_C10 ==
    Called =>
        /\ IsText => (Returns /\ V.score \in Int)
        /\ ~IsText => result = Threw("TypeError")

\* a text of a separator, a bullet mark and a comma has a verdict
Wit_C10 ==
    /\ argRaw = Str(<<El("/"), El("-"), El(",")>>)
    /\ Returns
    /\ V.score \in Int

\* the messages of the analyzer by key, in each language
LabelTable ==
    [en |-> {"Empty", "Precise", "Focused", "Exploratory"},
     zh |-> {"zh:Empty", "zh:Precise", "zh:Focused", "zh:Exploratory"}]
ReasonTable ==
    [en |-> {"No prompt yet", "Enough detail", "Too little detail",
             "Clear diagram / architecture terms",
             "Few diagram terms (a bit vague)",
             "Has constraints / categories (more controllable)",
             "Few constraints (model may drift)",
             "Contains vague words (reduces control)"},
     zh |-> {"zh:No prompt yet", "zh:Enough detail", "zh:Too little detail",
             "zh:Clear diagram / architecture terms",
             "zh:Few diagram terms (a bit vague)",
             "zh:Has constraints / categories (more controllable)",
             "zh:Few constraints (model may drift)",
             "zh:Contains vague words (reduces control)"}]
SuggestionTable ==
    [en |-> {"Start with: subject + diagram type + relationships",
             "Add: diagram type + relationships",
             "Add 1-2 hard constraints",
             "Group with commas/line breaks"},
     zh |-> {"zh:Start with: subject + diagram type + relationships",
             "zh:Add: diagram type + relationships",
             "zh:Add 1-2 hard constraints",
             "zh:Group with commas/line breaks"}]

OtherLanguage(l) == IF l = "zh" THEN "en" ELSE "zh"
MessagesIn(l) == LabelTable[l] \cup ReasonTable[l] \cup SuggestionTable[l]
Range(f) == {f[i] : i \in DOMAIN f}

\* C11: the label, every reason and every suggestion of a verdict is a
\* message of the requested language, and no message of the verdict belongs
\* to the other language
Thm_C11 ==
    (IsText /\ Returns) =>
        /\ V.label \in LabelTable[argLanguage]
        /\ Range(V.reasons) \subseteq ReasonTable[argLanguage]
        /\ Range(V.suggestions) \subseteq SuggestionTable[argLanguage]
        /\ ({V.label} \cup Range(V.reasons) \cup Range(V.suggestions))
              \cap MessagesIn(OtherLanguage(argLanguage)) = {}

\* a zh verdict of a non-blank text with four reasons and three suggestions
Wit_C11 ==
    /\ IsText
    /\ Returns
    /\ ~IsBlank
    /\ argLanguage = "zh"
    /\ Len(V.reasons) = 4
    /\ Len(V.suggestions) = 3

----------------------------------------------------------------------------
(* Properties of the prompt compiler *)

BuiltNow == built.state = "returned"
Out == built.out

\* sub occurs in s as a contiguous run
Contains(s, sub) ==
    \E i \in 1..(Len(s) - Len(sub) + 1) : SubSeq(s, i, i + Len(sub) - 1) = sub

\* the text has a character that is not white space
HasText(t) == t.type = "string" /\ Trim(t.str) # <<>>

\* C12: the compiled prompt is never empty; when userPrompt has a character
\* that is not white space the prompt contains the trimmed userPrompt, right
\* under the user request header and followed by the output reminder; in
\* every other case it contains the placeholder "(no additional input)" there
Thm_C12 ==
    BuiltNow =>
        LET body == IF HasText(params.userPrompt)
                    THEN Trim(params.userPrompt.str)
                    ELSE <<Placeholder>>
        IN  /\ Out # <<>>
            /\ StrLen(Out) > 0
            /\ Contains(Out, body)
            /\ Contains(Out, <<UserHeader, NL>> \o body
                              \o <<NL, NL>> \o outputReminder)

\* a prompt compiled from a userPrompt that trim() shortens
Wit_C12 ==
    /\ BuiltNow
    /\ HasText(params.userPrompt)
    /\ Trim(params.userPrompt.str) # params.userPrompt.str
    /\ Contains(Out, <<UserHeader, NL>> \o Trim(params.userPrompt.str))

\* the first lines of the blocks and sub-blocks, in the order of the claim:
\* role, quality statement, common constraints, style sub-block, polish
\* sub-block, composition, diagram grammar, preset, emphasis, intent focus,
\* user request, output reminder
SlotHeaders ==
    << {systemRole[1]},
       {qualityDraft[1], qualityPortfolio[1]},
       {common[1]},
       {lineworkMinimal[1], boldColors[1]},
       {portfolioPolish[1]},
       {compositionDraft[1], compositionPortfolio[1]},
       {diagramGrammar[1]},
       {presetMassing[1], presetCirculation[1], presetZoning[1],
        presetProgram[1], presetImmersive[1], presetProcess[1],
        presetGeneric[1]},
       {emphasisMassing[1], emphasisCirculation[1], emphasisProgram[1],
        emphasisExperience[1], emphasisBalanced[1]},
       {IntentHeader},
       {UserHeader},
       {outputReminder[1]} >>

\* the slots a config may leave out: polish sub-block and intent focus
OptionalSlots == {5, 10}

\* where the block of slot k starts in s
SlotPositions(s, k) == {i \in 1..Len(s) : s[i] \in SlotHeaders[k]}

\* C13: every block that is always emitted occurs exactly once in the
\* compiled prompt, the polish sub-block and the intent focus at most once,
\* and the blocks that occur start in the fixed order of the slots
Thm_C13 ==
    BuiltNow =>
        /\ \A k \in DOMAIN SlotHeaders :
               /\ Cardinality(SlotPositions(Out, k)) <= 1
               /\ k \notin OptionalSlots => SlotPositions(Out, k) # {}
        /\ \A j, k \in DOMAIN SlotHeaders :
               j < k => \A a \in SlotPositions(Out, j),
                           b \in SlotPositions(Out, k) : a < b

\* a prompt with all twelve blocks, none of them the default variant
Wit_C13 ==
    /\ BuiltNow
    /\ \A k \in DOMAIN SlotHeaders : SlotPositions(Out, k) # {}
    /\ params.preset = "zoning"
    /\ params.style = "bold"
    /\ params.emphasis = "massing"
    /\ params.quality = "portfolio"

\* line k of a block of fixed lines
LineOf(block, k) == block[2 * k - 1]

\* the lines of the templates that give an instruction about arrows
ArrowLines ==
    { LineOf(lineworkMinimal, 5), LineOf(boldColors, 6),
      LineOf(diagramGrammar, 3),
      LineOf(presetCirculation, 3), LineOf(presetProcess, 3),
      LineOf(emphasisMassing, 3), LineOf(emphasisCirculation, 3),
      LineOf(emphasisProgram, 4), LineOf(emphasisExperience, 4),
      LineOf(emphasisBalanced, 2) }

\* the arrow instructions in a compiled prompt
ArrowLinesIn(s) == {s[i] : i \in DOMAIN s} \cap ArrowLines

\* the same config with another emphasis
WithEmphasis(p, e) == [p EXCEPT !.emphasis = e]

\* C14 as stated: with emphasis = "massing" the compiled prompt has none of
\* the arrow instructions that the prompt of the same config with
\* emphasis = "all" has
Cex_C14 ==
    (BuiltNow /\ params.emphasis = "massing") =>
        ArrowLinesIn(Out)
            \cap ArrowLinesIn(buildDiagramPrompt(WithEmphasis(params, "all")))
        = {}

\* the same config with another style, another quality
WithStyle(p, v) == [p EXCEPT !.style = v]
WithQuality(p, v) == [p EXCEPT !.quality = v]

\* C15 as stated: a style that is omitted or is neither "minimal" nor "bold"
\* compiles to exactly the prompt of the same config with style = "minimal"
Cex_C15 ==
    (BuiltNow /\ params.style \notin {"minimal", "bold"}) =>
        Out = buildDiagramPrompt(WithStyle(params, "minimal"))

\* C16 as stated: a quality that is omitted or is neither "draft" nor
\* "portfolio" compiles to exactly the prompt of the same config with
\* quality = "portfolio"
Cex_C16 ==
    (BuiltNow /\ params.quality \notin {"draft", "portfolio"}) =>
        Out = buildDiagramPrompt(WithQuality(params, "portfolio"))

----------------------------------------------------------------------------
(* Properties of the intent presets *)

KnownPresets == {"massing", "circulation", "zoning", "program", "immersive",
                 "process"}

\* C17: every call of getIntentPresets returns 4 labels, all different; a
\* preset that is empty, omitted or unknown gets the generic list; and a call
\* returns what every earlier call on the same preset returned, label by
\* label, while two different known presets never get the same list
Thm_C17 ==
    \A i \in DOMAIN lookups :
        /\ Len(lookups[i].out) = 4
        /\ Cardinality(Range(lookups[i].out)) = 4
        /\ lookups[i].preset \notin KnownPresets =>
               lookups[i].out = intentsGeneric
        /\ \A j \in 1..(i - 1) :
               /\ lookups[j].preset = lookups[i].preset =>
                      \A k \in 1..4 : lookups[j].out[k] = lookups[i].out[k]
               /\ (lookups[j].preset # lookups[i].preset
                   /\ {lookups[j].preset, lookups[i].preset}
                          \subseteq KnownPresets) =>
                      lookups[j].out # lookups[i].out

\* a known preset looked up again after a lookup of an unknown preset
Wit_C17 ==
    /\ Len(lookups) = 3
    /\ lookups[1].preset = "zoning"
    /\ lookups[2].preset = "site"
    /\ lookups[3].preset = "zoning"
    /\ lookups[3].out = lookups[1].out
    /\ lookups[2].out = intentsGeneric

\* the compiled prompt has the intent focus block
IntentPresent == SlotPositions(Out, 10) # {}

\* a non-empty intent string was supplied
IntentSupplied == params.intent.type = "string" /\ params.intent.str # <<>>

\* the blank lines of a text: the places where two line breaks meet
Gaps(s) == {i \in 1..(Len(s) - 1) : s[i] = NL /\ s[i + 1] = NL}

\* the last line of the emphasis block of the config
EmphasisEnd ==
    LET b == emphasisBlock(Default(params.emphasis, "all")) IN b[Len(b)]

\* with no intent block the user request follows the emphasis block after
\* one blank line, no text has three line breaks in a row, and the prompt
\* of the same config with an intent has exactly one blank line more
NoIntentNoGap ==
    /\ Contains(Out, <<EmphasisEnd, NL, NL, UserHeader>>)
    /\ \A i \in Gaps(Out) : i + 1 \notin Gaps(Out)
    /\ Cardinality(Gaps(buildDiagramPrompt(
            [params EXCEPT !.intent = Str(<<El("it")>>)])))
       = Cardinality(Gaps(Out)) + 1

\* C18 as stated: the intent block is there exactly when a non-empty intent
\* is supplied, it carries the intent character for character, and without
\* it no gap is left
Cex_C18 ==
    BuiltNow =>
        /\ IntentPresent <=> IntentSupplied
        /\ IntentPresent =>
               Contains(Out, <<IntentHeader, NL, El("-"), El("SP")>>
                             \o params.intent.str \o <<NL, NL, UserHeader>>)
        /\ ~IntentPresent => NoIntentNoGap

\* C18, amended: the intent block is there exactly when a non-empty intent
\* string is supplied; it is the header line followed by the line "- " and
\* the intent, with the white space at the end of that line removed (the
\* intent's own trailing white space, and the blank after the dash when the
\* intent is white space only); without an intent block no gap is left
Thm_C18 ==
    BuiltNow =>
        /\ IntentPresent <=> IntentSupplied
        /\ IntentPresent =>
               Contains(Out, <<EmphasisEnd, NL, NL, IntentHeader, NL>>
                             \o TrimEnd(<<El("-"), El("SP")>>
                                        \o params.intent.str)
                             \o <<NL, NL, UserHeader>>)
        /\ ~IntentPresent => NoIntentNoGap

\* a prompt whose intent block lost the intent's trailing blank
Wit_C18 ==
    /\ BuiltNow
    /\ params.intent = Str(<<El("it"), El("SP")>>)
    /\ Contains(Out, <<IntentHeader, NL, El("-"), El("SP"), El("it"), NL, NL,
                       UserHeader>>)

----------------------------------------------------------------------------
(* Properties of the generation route *)

Succeeded == routePc = "done" /\ response.status = 200

\* C19 as stated: a successful request that is not multi-intent returns as
\* many images as requested, 2 when count is not given
Cex_C19 ==
    (Succeeded /\ ~multiIntentOf(request.body)) =>
        Len(response.images) = requestedCount(request.body)

----------------------------------------------------------------------------
(* Properties of the page *)

\* the score the analyzer gives a prompt text
PromptScore(text) == analyzePromptStrength(Str(text), "en").value.score

\* C20 as stated: every generation request the page has sent was sent while
\* no other one was in flight and carries a prompt that is not blank and
\* that the analyzer scores at least STRENGTH_MIN
Cex_C20 ==
    \A i \in DOMAIN fetches :
        /\ ~fetches[i].overlaps
        /\ Trim(fetches[i].prompt) # <<>>
        /\ PromptScore(fetches[i].prompt) >= STRENGTH_MIN

\* C21: the k-th provider call of a request is issued only when the k-1
\* calls before it have returned an image, so at most one call is
\* outstanding; the k-th call is the call for the k-th intent, and the k-th
\* result is the k-th intent with the image returned to the k-th call
Thm_C21 ==
    /\ Len(providerLog) <= Len(results) + 1
    /\ Len(providerLog) <= Len(intents)
    /\ routePc = "awaiting" <=> Len(providerLog) = Len(results) + 1
                                /\ response = NoResponse
    /\ \A k \in DOMAIN providerLog : providerLog[k].intent = intents[k]
    /\ \A k \in DOMAIN results :
           /\ results[k].intent = intents[k]
           /\ results[k].b64 = ImageOf(k)

\* the third call of a multi-intent request is outstanding after two calls
\* returned an image
Wit_C21 ==
    /\ routePc = "awaiting"
    /\ Len(intents) = 4
    /\ Len(providerLog) = 3
    /\ Len(results) = 2

\* the number of results C22 names for a body: 4 without a count, else the
\* whole part of the count brought into 1..4
NamedCount(body) ==
    IF body.count.type # "number" THEN 4
    ELSE LET whole == body.count.halves \div 2
         IN  IF whole < 1 THEN 1 ELSE IF whole > 4 THEN 4 ELSE whole

\* C22: the response of a successful multi-intent request has NamedCount
\* results, images and meta.count; result i carries the i-th label of
\* getIntentPresets(preset) and image i is the image of result i
Thm_C22 ==
    (Succeeded /\ multiIntentOf(request.body)) =>
        LET n == NamedCount(request.body)
            labels == getIntentPresets(presetOf(request.body))
        IN  /\ Len(response.results) = n
            /\ Len(response.images) = n
            /\ response.count = n
            /\ \A i \in 1..n :
                   /\ response.results[i].intent = labels[i]
                   /\ response.images[i] = response.results[i].b64

\* a multi-intent request with count 2.5 and preset zoning answered with
\* the first two zoning labels
Wit_C22 ==
    /\ Succeeded
    /\ multiIntentOf(request.body)
    /\ request.body.count = Num(5)
    /\ request.body.preset = "zoning"
    /\ Len(response.results) = 2
    /\ response.results[2].intent = intentsZoning[2]

----------------------------------------------------------------------------
(* More properties of the analyzer *)

\* the length steps C23 names
NamedLenScore(len) ==
    CASE len < 40 -> 10
      [] len >= 40 /\ len < 80 -> 25
      [] len >= 80 /\ len < 120 -> 40
      [] len >= 120 /\ len < 260 -> 60
      [] len >= 260 /\ len < 380 -> 55
      [] OTHER -> 45

\* n brought into a..b
Bounded(n, a, b) == IF n < a THEN a ELSE IF n > b THEN b ELSE n

\* the numbers of a text: its maximal runs of digits
Numbers(s) ==
    Cardinality({i \in 1..Len(s) :
                    Kind(s[i]) = "3" /\ (i = 1 \/ Kind(s[i - 1]) # "3")})

\* the role words of a text: role atoms that stand as whole words
RoleWords(s) ==
    Cardinality({i \in 1..Len(s) :
                    /\ Kind(s[i]) \in RoleAtoms
                    /\ i = 1 \/ ~IsWordChar(s[i - 1])
                    /\ i = Len(s) \/ ~IsWordChar(s[i + 1])})

\* a text of one English and one CJK vague word, and a long text with
\* punctuation, a bullet line and five numbers
VagueText == <<El("nice"), El("SP"), El("HK")>>
RichText ==
    <<Filler(120), El(","), El("NL"), El("-"), El("SP"), El("3"), El("SP"),
      El("3"), El("SP"), El("3"), El("SP"), El("3"), El("SP"), El("3")>>
VagueTextScore == PromptScore(VagueText)
RichTextScore == PromptScore(RichText)

\* C23: the score of a non-blank text is the sum of the length step, the
\* structure, keyword and constraints scores less the vague penalty,
\* brought into 0..100; the length step is the named step function, the
\* structure score is at most 28, the keyword score is in 0..30, the
\* constraints score is 4 per number + 2 per role word + 1 per separator
\* brought into 0..20, the penalty is in 0..20; the vague text scores 0 and
\* the rich text scores 100
Thm_C23 ==
    /\ VagueTextScore = 0
    /\ RichTextScore = 100
    /\ (IsText /\ Returns /\ ~IsBlank) =>
           LET len == StrLen(CurText)
               con == Bounded(4 * Numbers(CurText) + 2 * RoleWords(CurText)
                              + Occurrences(CurText, {"/"}), 0, 20)
           IN  /\ lenScore(len) = NamedLenScore(len)
               /\ structureScore(CurText) <= 28
               /\ keywordScore(CurText) \in 0..30
               /\ constraintsScore(CurText) = con
               /\ vaguePenalty(CurText) \in 0..20
               /\ V.score = Bounded(NamedLenScore(len)
                                    + structureScore(CurText)
                                    + keywordScore(CurText) + con
                                    - vaguePenalty(CurText), 0, 100)

\* the analyzer has scored the vague text 0: the lower clamp bound
Wit_C23 ==
    /\ IsText /\ Returns
    /\ CurText = VagueText
    /\ V.score = 0
    /\ 10 - vaguePenalty(CurText) < 0

\* a message in the language of the current call
Msg(en) == IF argLanguage = "zh" THEN "zh:" \o en ELSE en

NiceDiagram == <<El("nice"), El("SP"), El("diagram")>>

\* C24: the reasons of a non-blank text are, in this order, the detail
\* reason (enough from 80 characters), the terms reason (clear from a
\* keyword score of 18), the constraints reason (has constraints from a
\* constraints score of 10) and, exactly when the vague penalty is not 0,
\* the vague words reason; "nice diagram" is exploratory with the too little
\* detail and the vague words reasons
Thm_C24 ==
    (IsText /\ Returns /\ ~IsBlank) =>
        LET detail == IF StrLen(CurText) >= 80 THEN Msg("Enough detail")
                      ELSE Msg("Too little detail")
            terms == IF keywordScore(CurText) >= 18
                     THEN Msg("Clear diagram / architecture terms")
                     ELSE Msg("Few diagram terms (a bit vague)")
            constraints ==
                IF constraintsScore(CurText) >= 10
                THEN Msg("Has constraints / categories (more controllable)")
                ELSE Msg("Few constraints (model may drift)")
            vagueWords == IF vaguePenalty(CurText) > 0
                          THEN <<Msg("Contains vague words (reduces control)")>>
                          ELSE <<>>
        IN  /\ V.reasons = <<detail, terms, constraints>> \o vagueWords
            /\ CurText = NiceDiagram =>
                   /\ V.level = "exploratory"
                   /\ Msg("Too little detail") \in Range(V.reasons)
                   /\ Msg("Contains vague words (reduces control)")
                          \in Range(V.reasons)

\* the verdict of "nice diagram" in English
Wit_C24 ==
    /\ IsText /\ Returns
    /\ CurText = NiceDiagram
    /\ argLanguage = "en"
    /\ V.score = 8
    /\ V.reasons = <<"Too little detail", "Few diagram terms (a bit vague)",
                     "Few constraints (model may drift)",
                     "Contains vague words (reduces control)">>

\* C25: the suggestions of a non-blank text are, in this order and with
\* nothing else, the diagram type suggestion exactly when the score is under
\* 40, the hard constraints suggestion exactly when the constraints score is
\* under 8, the grouping suggestion exactly when the structure score is
\* under 10; so there are between 0 and 3 of them
Thm_C25 ==
    (IsText /\ Returns /\ ~IsBlank) =>
        LET type == IF V.score < 40
                    THEN <<Msg("Add: diagram type + relationships")>>
                    ELSE <<>>
            hard == IF constraintsScore(CurText) < 8
                    THEN <<Msg("Add 1-2 hard constraints")>> ELSE <<>>
            group == IF structureScore(CurText) < 10
                     THEN <<Msg("Group with commas/line breaks")>> ELSE <<>>
        IN  /\ V.suggestions = type \o hard \o group
            /\ Len(V.suggestions) \in 0..3

\* a verdict without suggestions
Wit_C25 ==
    /\ IsText /\ Returns /\ ~IsBlank
    /\ V.suggestions = <<>>
    /\ V.score >= 40

----------------------------------------------------------------------------
(* More properties of the prompt compiler *)

\* the element occurs in the compiled prompt
InOut(e) == \E i \in DOMAIN Out : Out[i] = e

\* C26 as stated: the polish sub-block is in the compiled prompt exactly
\* when the prompt's mode statement is "Mode: PORTFOLIO"; with quality
\* "draft" there is no polish sub-block and the mode statement and the
\* composition block are the draft ones
Cex_C26 ==
    BuiltNow =>
        /\ InOut(portfolioPolish[1]) <=> InOut(qualityPortfolio[1])
        /\ params.quality = "draft" =>
               /\ ~InOut(portfolioPolish[1])
               /\ Contains(Out, qualityDraft)
               /\ Contains(Out, compositionDraft)
               /\ ~Contains(Out, compositionPortfolio)

----------------------------------------------------------------------------
(* More properties of the generation route *)

\* a provider call of the request was answered with an error or without
\* image data
CallFailed == routePc = "done" /\ Len(providerLog) > Len(results)

\* C27: when a provider call fails or returns no image data the handler is
\* finished: the failed call is the last call it issued, nothing more can
\* happen in the request, and the response is an error response without
\* images and results, whatever number of earlier calls returned an image
Thm_C27 ==
    CallFailed =>
        /\ Len(providerLog) = Len(results) + 1
        /\ ~ENABLED NextRoute
        /\ response.status \notin {0, 200}
        /\ response.error # ""
        /\ response.images = <<>>
        /\ response.results = <<>>

\* the third call of a request failed after two calls returned an image
Wit_C27 ==
    /\ CallFailed
    /\ Len(results) = 2
    /\ Len(intents) = 4
    /\ response.status = 429
    /\ response.images = <<>>

\* the body's prompt has no character that is not white space; the body's
\* preset is empty or left out
PromptBlank == ~HasText(request.body.prompt)
PresetEmpty == request.body.preset \in {Undefined, ""}

\* C28: a provider call is issued only for a request with the API key set
\* and with a prompt that is not blank or a preset that is not empty; a
\* request without the key is answered with status 500, a request with the
\* key, a blank prompt and an empty preset with status 400, both without a
\* provider call
Thm_C28 ==
    /\ providerLog # <<>> =>
           request.hasKey /\ (~PromptBlank \/ ~PresetEmpty)
    /\ (routePc = "done" /\ ~request.hasKey) =>
           response.status = 500 /\ providerLog = <<>>
    /\ (routePc = "done" /\ request.hasKey /\ PromptBlank /\ PresetEmpty) =>
           response.status = 400 /\ providerLog = <<>>

\* a request with a prompt of one blank and the preset "" answered with 400
Wit_C28 ==
    /\ routePc = "done"
    /\ request.hasKey
    /\ request.body.prompt = Str(<<El("SP")>>)
    /\ request.body.preset = ""
    /\ response.status = 400
    /\ providerLog = <<>>

----------------------------------------------------------------------------
(* More properties of the page *)

\* C29: when the fetch of every generation settles, loading does not stay
\* true: a generation that set it is followed by loading = false; and a
\* fetch that returns a response that is not OK, or that rejects, leaves an
\* error message and an empty image list
Thm_C29 ==
    /\ loading ~> ~loading
    /\ [][(FetchNotOk \/ FetchThrows) =>
              (~loading' /\ error' # "" /\ images' = <<>>)]_vars
    /\ [][FetchOk => ~loading']_vars

\* a generation has ended with a rejected fetch
Wit_C29 ==
    /\ \E i \in DOMAIN fetches : ~Pending(fetches[i])
    /\ ~loading
    /\ error = "Unknown error"
    /\ images = <<>>

\* C30: the page's prompt, which is the value PromptPanel last handed to
\* onChangeAction, never has more than maxChars characters
Thm_C30 == StrLen(prompt) <= maxChars

\* a tag was appended to a typed text of 490 characters and cut at 500
Wit_C30 ==
    /\ StrLen(prompt) = maxChars
    /\ Len(prompt) > 1
    /\ prompt[1] = Filler(490)
    /\ SubSeq(prompt, 2, 3) = <<El("SP"), El("label")>>
====
